---- MODULE Spec2Model ----
(***************************************************************************)
(* Model of version-track (src/index.js, the split source/log variant,     *)
(* lines 410-657): getUpdatedPackageObject probes every trackable's        *)
(* candidate commands, builds one version entry and merges it into the     *)
(* successfulBuilds log; generatePackageJsonWithTracking reads the log,     *)
(* makes the call and writes the result.                                   *)
(*                                                                         *)
(* Representation                                                          *)
(*   - an optional JS value (null / undefined / absent) is a sequence of   *)
(*     length 0, a present one a sequence of length 1;                     *)
(*   - process output is text: a sequence of characters;                   *)
(*   - a JS object is a sequence of [key, value] pairs in the order        *)
(*     Object.keys / JSON.stringify enumerate them: array-index keys in    *)
(*     ascending numeric order first, then the other keys in insertion     *)
(*     order.                                                              *)
(***************************************************************************)
EXTENDS Integers, Sequences, FiniteSets, TLC

\* ------------------------------------------------------------- bounds

\* Number of getUpdatedPackageObject calls one behaviour makes.
MaxCalls == 2

\* ------------------------------------------------------ optional values

None == <<>>

Some(x) == <<x>>

IsSome(o) == Len(o) = 1

Get(o) == o[1]

\* ------------------------------------------------------------------ text

ESC == "ESC"

CSI == "CSI"

\* JS String.prototype.trim white space (the part of it the model's alphabet has).
IsWhiteSpace(c) == c \in {" ", "\n"}

RECURSIVE TrimStart(_)
TrimStart(s) ==
    IF s # <<>> /\ IsWhiteSpace(Head(s)) THEN TrimStart(Tail(s)) ELSE s

RECURSIVE TrimEnd(_)
TrimEnd(s) ==
    IF s # <<>> /\ IsWhiteSpace(s[Len(s)]) THEN TrimEnd(SubSeq(s, 1, Len(s) - 1)) ELSE s

Trim(s) == TrimEnd(TrimStart(s))

\* The character classes of the regular expression of line 485:
\*   [\u001b\u009b]  [[()#;?]*  (?:[0-9]{1,4}(?:;[0-9]{0,4})*)?  [0-9A-ORZcf-nqry=><]
IsIntroducer(c) == c \in {ESC, CSI}

IsPrefixChar(c) == c \in {"[", "(", ")", "#", ";", "?"}

IsDigit(c) == c \in {"0", "1", "2", "3", "4", "5", "6", "7", "8", "9"}

IsFinalChar(c) ==
    \/ IsDigit(c)
    \/ c \in {"A", "B", "C", "D", "E", "F", "G", "H", "I", "J", "K", "L", "M", "N", "O"}
    \/ c \in {"R", "Z", "c", "f", "g", "h", "i", "j", "k", "l", "m", "n", "q", "r", "y"}
    \/ c \in {"=", ">", "<"}

CharAt(s, p) == IF p >= 1 /\ p <= Len(s) THEN s[p] ELSE ""

\* Number of consecutive characters of class digit at s[p..], at most `most`.
RECURSIVE DigitRun(_, _, _)
DigitRun(s, p, most) ==
    IF most > 0 /\ IsDigit(CharAt(s, p)) THEN 1 + DigitRun(s, p + 1, most - 1) ELSE 0

\* Position after the greedy [[()#;?]* starting at p.
RECURSIVE SkipPrefix(_, _)
SkipPrefix(s, p) == IF IsPrefixChar(CharAt(s, p)) THEN SkipPrefix(s, p + 1) ELSE p

\* The final byte at p: the position after it, or 0 when it does not match.
MatchFinal(s, p) == IF IsFinalChar(CharAt(s, p)) THEN p + 1 ELSE 0

\* (?:;[0-9]{0,4})* followed by the final byte, as a backtracking matcher tries
\* it: one more iteration first (its digit count from the longest down to 0),
\* no more iterations last. The position after the match, or 0.
RECURSIVE MatchParams(_, _)
RECURSIVE MatchParamsFrom(_, _, _)
MatchParamsFrom(s, p, k) ==
    IF k < 0 THEN 0
    ELSE LET r == MatchParams(s, p + 1 + k)
         IN IF r # 0 THEN r ELSE MatchParamsFrom(s, p, k - 1)

MatchParams(s, p) ==
    LET more == IF CharAt(s, p) = ";"
                THEN MatchParamsFrom(s, p, DigitRun(s, p + 1, 4))
                ELSE 0
    IN IF more # 0 THEN more ELSE MatchFinal(s, p)

\* [0-9]{1,4} with k digits (longest first), then the parameters and the final byte.
RECURSIVE MatchNumberFrom(_, _, _)
MatchNumberFrom(s, p, k) ==
    IF k < 1 THEN 0
    ELSE LET r == MatchParams(s, p + k)
         IN IF r # 0 THEN r ELSE MatchNumberFrom(s, p, k - 1)

\* One match of the whole expression anchored at p: the position after it, or 0.
MatchEscape(s, p) ==
    IF ~IsIntroducer(CharAt(s, p)) THEN 0
    ELSE LET q == SkipPrefix(s, p + 1)
             withNumber == MatchNumberFrom(s, q, DigitRun(s, q, 4))
         IN IF withNumber # 0 THEN withNumber ELSE MatchFinal(s, q)

\* output.replace(/.../g, ""): every match, leftmost first, is removed.
RECURSIVE StripFrom(_, _)
StripFrom(s, p) ==
    IF p > Len(s) THEN <<>>
    ELSE LET e == MatchEscape(s, p)
         IN IF e # 0 THEN StripFrom(s, e) ELSE <<s[p]>> \o StripFrom(s, p + 1)

StripAnsi(s) == StripFrom(s, 1)

\* ------------------------------------------------------------ JS objects

\* The value of a canonical array-index key ("0", "1", "2", ... as JS prints
\* them), or -1 for every other key. Only the keys of the model's alphabet.
ArrayIndexOf(key) ==
    CASE key = "2" -> 2
      [] key = "10" -> 10
      [] OTHER -> -1

IsArrayIndex(key) == ArrayIndexOf(key) >= 0

ObjKeys(obj) == [i \in 1..Len(obj) |-> obj[i].key]

ObjHas(obj, key) == \E i \in 1..Len(obj) : obj[i].key = key

ObjGet(obj, key) == obj[CHOOSE i \in 1..Len(obj) : obj[i].key = key].value

\* Where a key that the object does not have yet is created: an array index goes
\* before the first key that is no array index or is a greater one; any other
\* key goes last.
InsertPosition(obj, key) ==
    IF IsArrayIndex(key)
    THEN LET later == {i \in 1..Len(obj) :
                          \/ ~IsArrayIndex(obj[i].key)
                          \/ ArrayIndexOf(obj[i].key) > ArrayIndexOf(key)}
         IN IF later = {} THEN Len(obj) + 1
            ELSE CHOOSE i \in later : \A j \in later : i <= j
    ELSE Len(obj) + 1

\* obj[key] = value
ObjSet(obj, key, value) ==
    IF ObjHas(obj, key)
    THEN [i \in 1..Len(obj) |->
             IF obj[i].key = key THEN [key |-> key, value |-> value] ELSE obj[i]]
    ELSE LET p == InsertPosition(obj, key)
         IN SubSeq(obj, 1, p - 1) \o <<[key |-> key, value |-> value]>>
                \o SubSeq(obj, p, Len(obj))

\* delete obj[key]
ObjDelete(obj, key) == SelectSeq(obj, LAMBDA pair : pair.key # key)

\* { ...target, ...src }: the properties of src are set on target in src's order.
RECURSIVE ObjSpread(_, _)
ObjSpread(target, src) ==
    IF src = <<>> THEN target
    ELSE ObjSpread(ObjSet(target, Head(src).key, Head(src).value), Tail(src))

\* JSON.stringify of a string-or-null value.
StringifyValue(v) ==
    IF IsSome(v) THEN <<"\"">> \o Get(v) \o <<"\"">> ELSE <<"null">>

RECURSIVE StringifyPairs(_)
StringifyPairs(obj) ==
    IF obj = <<>> THEN <<>>
    ELSE <<"\"", Head(obj).key, "\"", ":">> \o StringifyValue(Head(obj).value)
            \o (IF Len(obj) > 1 THEN <<",">> ELSE <<>>) \o StringifyPairs(Tail(obj))

\* JSON.stringify(versionEntry): the keys are written in the object's own order.
Stringify(entry) ==
    <<"{", "\"", "platform", "\"", ":", "\"", entry.platform, "\"", ",",
      "\"", "executables", "\"", ":", "{">>
        \o StringifyPairs(entry.executables) \o <<"}", "}">>

\* ------------------------------------------------------------ the inputs

\* process.platform of the machine the calls run on.
Platform == "linux"

\* A candidate command of versionCommands: an array of argument strings, or
\* something that is no array (a plain string such as "git --version").
Command(argv) == [isArray |-> TRUE, argv |-> argv]

NotAnArray == [isArray |-> FALSE, argv |-> <<>>]

GitVersion == <<"git", "--version">>

Python3V == <<"python3", "-V">>

PythonV == <<"python", "-V">>

Trackable(name, commands) == [name |-> name, versionCommands |-> commands]

Git == Trackable(Some("git"), Some(<<Command(GitVersion)>>))

Python3 == Trackable(Some("python"), Some(<<Command(Python3V)>>))

\* python with a fallback: python3 first, then python.
Python == Trackable(Some("python"), Some(<<Command(Python3V), Command(PythonV)>>))

\* The README's shape: "versionCommand" (singular), so versionCommands is missing.
NoCommands == Trackable(Some("python"), None)

EmptyCommands == Trackable(Some("python"), Some(<<>>))

NoName == Trackable(None, Some(<<Command(GitVersion)>>))

\* A second entry for git, whose first candidate is a string.
StringCommand == Trackable(Some("git"), Some(<<NotAnArray, Command(GitVersion)>>))

\* A candidate that is an empty array: its command is undefined.
EmptyArgv == Trackable(Some("git"), Some(<<Command(<<>>)>>))

\* The values of source.versionTracker.track the calls are made with.
Tracks ==
    { <<>>, <<Python>>, <<Git, Python3>>, <<Python3, Git>>, <<Git, NoCommands>>,
      <<EmptyCommands>>, <<NoName>>, <<Git, StringCommand>>, <<EmptyArgv>> }

\* The values of source.version: two strings, or no string at all.
Versions == { Some("1.0.0"), Some("2"), None }

\* The caller's source objects: track is an array, or missing.
Sources == [version : Versions, track : {Some(tr) : tr \in Tracks} \cup {None}]

SpawnResult(status, stdout, stderr) ==
    [status |-> status, stdout |-> stdout, stderr |-> stderr]

\* The executable is missing: spawnSync returns status null and no output.
NotFound == SpawnResult(None, None, None)

\* What spawnSync(command, args) can return for a candidate, by what the
\* machine has installed.
SpawnResults(argv) ==
    CASE argv = GitVersion ->
           { \* coloured output
             SpawnResult(Some(0),
                 Some(<<ESC, "[", "3", "2", "m", "v", "1", ESC, "[", "0", "m", "\n">>),
                 Some(<<>>)),
             \* nothing but a colour reset
             SpawnResult(Some(0), Some(<<ESC, "[", "0", "m", "\n">>), Some(<<>>)) }
      [] argv = Python3V ->
           { SpawnResult(Some(0), Some(<<"v", "2", "\n">>), Some(<<>>)),
             SpawnResult(Some(0), Some(<<"\n">>), Some(<<" ">>)),
             NotFound }
      [] argv = PythonV ->
           { \* python 2 prints its version on stderr
             SpawnResult(Some(0), Some(<<>>), Some(<<"v", "1", "\n">>)),
             \* a failure that still prints
             SpawnResult(Some(1), Some(<<"v", "1">>), Some(<<"e">>)),
             NotFound }
      [] argv = <<"node", "--version">> ->
           { SpawnResult(Some(0), Some(<<"v", "1", "\n">>), Some(<<>>)) }
      [] OTHER -> { NotFound }

EmptyObject == <<>>

\* A version entry as an earlier run on this machine wrote it.
Entry(executables) == [platform |-> Platform, executables |-> executables]

Pair(key, value) == [key |-> key, value |-> value]

\* The logs the first call is made with: none yet, and the log left by two
\* earlier runs (git recorded for 1.0.0, then python for 0.0.0).
InitialLogs ==
    { EmptyObject,
      << Pair("0.0.0", <<Entry(<<Pair("python", Some(<<"v", "2">>))>>)>>),
         Pair("1.0.0", <<Entry(<<Pair("git", Some(<<"v", "1">>))>>)>>) >> }

\* Where the log is kept, by the `log` argument of
\* generatePackageJsonWithTracking: "split" is a path of its own, "none" is no
\* log argument, "same" is the path of the source package.json.
Modes == {"split", "none", "same"}

\* The history on disk before the first run: no file or property at all, or one
\* of the initial logs.
InitialHistories == {None} \cup {Some(log) : log \in InitialLogs}

\* ------------------------------------------------------------- the state

VARIABLES
    calls,          \* number of calls of getUpdatedPackageObject made so far
    pc,             \* "idle", "probing", "returned", "thrown", "written", "failed"
    mode,           \* where this project keeps its log
    logFile,        \* the parsed contents of the separate log file, if it exists
    packageBuilds,  \* versionTracker.successfulBuilds of package.json, if it has one
    callerSource,   \* the caller's source object (the argument `source`)
    callerLog,      \* the caller's log object (the argument `log`), with its bucket arrays
    logAtCall,      \* the contents of callerLog when the current call was made
    source,         \* the callee's copy of source (returned as newSource)
    t,              \* index in source.track of the trackable being probed
    c,              \* index of its next candidate; 0 before the trackable is entered
    versionEntry,   \* the entry being built
    spawned,        \* the spawnSync calls of the current call, oldest first
    newLog          \* the returned log (newLog), once the call has returned

vars ==
    <<calls, pc, mode, logFile, packageBuilds, callerSource, callerLog, logAtCall,
      source, t, c, versionEntry, spawned, newLog>>

\* What is on disk.
files == <<mode, logFile, packageBuilds>>

\* ------------------------------------------------- getUpdatedPackageObject

DefaultTrackingInfo ==
    << Trackable(Some("node"), Some(<<Command(<<"node", "--version">>)>>)),
       Trackable(Some("npm"), Some(<<Command(<<"npm", "-v">>)>>)),
       Trackable(Some("git"), Some(<<Command(GitVersion)>>)) >>

\* Lines 442-456: the deep copy of source with its defaults filled in and a spot
\* for the current version.
NormalizeSource(src) ==
    LET version == IF IsSome(src.version) THEN Get(src.version) ELSE "0.0.0"
    IN [version |-> version,
        track |-> IF IsSome(src.track) THEN Get(src.track) ELSE DefaultTrackingInfo,
        successfulBuilds |-> ObjSet(EmptyObject, version, <<>>)]

\* A source object with neither version nor track.
NoSource == [version |-> None, track |-> None]

\* Lines 459-462: the version entry before any trackable is probed.
NoEntry == [platform |-> Platform, executables |-> EmptyObject]

\* The property key a trackable's name is used as: a missing name is undefined.
PropertyKey(name) == IF IsSome(name) THEN Get(name) ELSE "undefined"

\* NullEntry left out: a trackable gets a key only once a candidate succeeds.
NullEntryOmitted(executables, name) == executables

\* Line 465: versionEntry.executables[eachTrackable.name] = null.
NullEntry(executables, name) == ObjSet(executables, PropertyKey(name), None)

\* Lines 472-474: the candidate counts as run when its exit status is 0.
ExitedZero(result) == IsSome(result.status) /\ Get(result.status) = 0

\* Lines 476-482: trimmed stdout followed by trimmed stderr.
Output(result) ==
    (IF IsSome(result.stdout) THEN Trim(Get(result.stdout)) ELSE <<>>)
        \o (IF IsSome(result.stderr) THEN Trim(Get(result.stderr)) ELSE <<>>)

\* Recorded without the exit-status test of lines 472-474.
RecordedIgnoringStatus(executables, key, result) ==
    IF Len(Output(result)) > 0
    THEN ObjSet(executables, key, Some(StripAnsi(Output(result))))
    ELSE executables

\* Lines 472-488: the executables object after one candidate's result.
Recorded(executables, key, result) ==
    IF ~ExitedZero(result) THEN executables
    ELSE IF Len(Output(result)) > 0
         THEN ObjSet(executables, key, Some(StripAnsi(Output(result))))
         ELSE executables

Trackables == source.track

\* Commands with a missing or empty list replaced by a default candidate.
CommandsOrDefault(i) ==
    IF IsSome(source.track[i].versionCommands) /\ Get(source.track[i].versionCommands) # <<>>
    THEN Get(source.track[i].versionCommands)
    ELSE <<Command(GitVersion)>>

Commands(i) ==
    IF IsSome(Trackables[i].versionCommands) THEN Get(Trackables[i].versionCommands) ELSE <<>>

\* The loops of lines 464 and 467 after candidate c of trackable t.
Advance ==
    IF c < Len(Commands(t))
    THEN /\ c' = c + 1
         /\ t' = t
    ELSE /\ c' = 0
         /\ t' = t + 1

\* Lines 450 and 456: the successfulBuilds of the copy, with a spot for the
\* current version.
NormalizeBuilds(builds, version) ==
    LET successfulBuilds == IF IsSome(builds) THEN Get(builds) ELSE EmptyObject
    IN IF ObjHas(successfulBuilds, version)
       THEN successfulBuilds
       ELSE ObjSet(successfulBuilds, version, <<>>)

\* The parsed package.json read as a log (line 587, when the log path is the
\* source path): its properties are version, if it has one, and versionTracker.
\* Their values are no buckets; the call reads only the bucket of the project
\* version, so they are not modelled and the empty sequence stands for them.
PackageAsLog(src) ==
    (IF IsSome(src.version) THEN <<Pair("version", <<>>)>> ELSE <<>>)
        \o <<Pair("versionTracker", <<>>)>>

\* Lines 580-591: logData, the log the call is made with.
LogData(src) ==
    CASE mode = "none" ->
           IF IsSome(packageBuilds) THEN Get(packageBuilds) ELSE EmptyObject
      [] mode = "split" ->
           IF IsSome(logFile) THEN Get(logFile) ELSE EmptyObject
      [] mode = "same" -> PackageAsLog(src)

\* A run: lines 578-593 read package.json and the log and make the call, whose
\* lines 440-462 copy the source and start the entry.
Call(src) ==
    /\ pc = "idle"
    /\ calls < MaxCalls
    /\ calls' = calls + 1
    /\ callerSource' = src
    /\ callerLog' = LogData(src)
    /\ logAtCall' = LogData(src)
    /\ source' =
           [NormalizeSource(src) EXCEPT
               !.successfulBuilds = NormalizeBuilds(packageBuilds, NormalizeSource(src).version)]
    /\ versionEntry' = NoEntry
    /\ t' = 1
    /\ c' = 0
    /\ spawned' = <<>>
    /\ pc' = "probing"
    /\ UNCHANGED <<newLog, files>>

\* Lines 464-466: the next trackable gets a null entry; its candidates are tried
\* only when versionCommands is an array.
EnterTrackable ==
    /\ pc = "probing"
    /\ t <= Len(Trackables)
    /\ c = 0
    /\ versionEntry' =
           [versionEntry EXCEPT !.executables = NullEntry(@, Trackables[t].name)]
    /\ IF Len(Commands(t)) > 0
       THEN /\ c' = 1
            /\ t' = t
       ELSE /\ c' = 0
            /\ t' = t + 1
    /\ UNCHANGED <<calls, pc, callerSource, callerLog, logAtCall, source, spawned, newLog,
                   files>>

\* Line 468: a candidate that is no array is passed over.
SkipCandidate ==
    /\ pc = "probing"
    /\ t <= Len(Trackables)
    /\ c >= 1
    /\ ~Commands(t)[c].isArray
    /\ Advance
    /\ UNCHANGED <<calls, pc, callerSource, callerLog, logAtCall, source, versionEntry,
                   spawned, newLog, files>>

\* Lines 469-488: one candidate is spawned and its result recorded.
Spawn ==
    /\ pc = "probing"
    /\ t <= Len(Trackables)
    /\ c >= 1
    /\ Commands(t)[c].isArray
    /\ Commands(t)[c].argv # <<>>
    /\ \E result \in SpawnResults(Commands(t)[c].argv) :
          /\ spawned' = Append(spawned, [t |-> t, c |-> c, result |-> result])
          /\ versionEntry' =
                 [versionEntry EXCEPT
                     !.executables =
                         Recorded(@, PropertyKey(Trackables[t].name), result)]
    /\ Advance
    /\ UNCHANGED <<calls, pc, callerSource, callerLog, logAtCall, source, newLog, files>>

\* Lines 469-470: the command of an empty array is undefined, and spawnSync
\* throws a TypeError for a command that is no string.
SpawnThrows ==
    /\ pc = "probing"
    /\ t <= Len(Trackables)
    /\ c >= 1
    /\ Commands(t)[c].isArray
    /\ Commands(t)[c].argv = <<>>
    /\ pc' = "thrown"
    /\ UNCHANGED <<calls, callerSource, callerLog, logAtCall, source, t, c, versionEntry,
                   spawned, newLog, files>>

\* WithBucket without the `||`: the version gets an empty bucket whether the
\* log has one or not.
WithBucketAlwaysEmpty(log, version) == ObjSet(log, version, <<>>)

\* Lines 497-498: the shallow copy of the log, with an empty bucket for the
\* version when the log has none (a bucket is an array, and an array is truthy).
WithBucket(log, version) ==
    IF ObjHas(log, version) THEN log ELSE ObjSet(log, version, <<>>)

\* IsRecorded comparing the entry with the stored objects themselves: a fresh
\* object is never one of them.
IsRecordedByIdentity(bucket, entry) == FALSE

\* Lines 496-500: entriesAsStrings.includes(entryAsString).
IsRecorded(bucket, entry) ==
    \E i \in 1..Len(bucket) : Stringify(bucket[i]) = Stringify(entry)

\* Unshift as push: the entry goes to the end of the bucket.
UnshiftAsPush(bucket, entry) == bucket \o <<entry>>

\* Line 504: currentVerisonEntries.unshift(versionEntry).
Unshift(bucket, entry) == <<entry>> \o bucket

\* Lines 502-511: the entry goes to the front of the bucket, the bucket is
\* deleted and the object is rebuilt with the version set first.
InsertAtFront(successfulBuilds, version, entry) ==
    ObjSpread(
        ObjSet(EmptyObject, version, Unshift(ObjGet(successfulBuilds, version), entry)),
        ObjDelete(successfulBuilds, version))

Reverse(seq) == [i \in 1..Len(seq) |-> seq[Len(seq) + 1 - i]]

\* MoveToTop walking the older builds from the last to the first.
MoveToTopReversed(successfulBuilds, version) ==
    ObjSpread(
        ObjSet(EmptyObject, version, ObjGet(successfulBuilds, version)),
        Reverse(successfulBuilds))

\* Lines 514-517: the object is rebuilt with the version set first.
MoveToTop(successfulBuilds, version) ==
    ObjSpread(
        ObjSet(EmptyObject, version, ObjGet(successfulBuilds, version)),
        successfulBuilds)

\* Lines 496-518: the returned log.
MergedLog(log, version, entry) ==
    LET successfulBuilds == WithBucket(log, version)
    IN MoveToTop(
           IF IsRecorded(ObjGet(successfulBuilds, version), entry)
           THEN successfulBuilds
           ELSE InsertAtFront(successfulBuilds, version, entry),
           version)

\* Lines 497-504: {...log} copies the log's properties, not its arrays, so the
\* bucket that unshift changes is the caller's own array when the log has one
\* for the version.
CallerLogAfterMerge(log, version, entry) ==
    IF ObjHas(log, version) /\ ~IsRecorded(ObjGet(log, version), entry)
    THEN ObjSet(log, version, Unshift(ObjGet(log, version), entry))
    ELSE log

\* Lines 495-518, once every trackable is probed: the merge and the return.
Merge ==
    /\ pc = "probing"
    /\ t > Len(Trackables)
    /\ newLog' = MergedLog(callerLog, source.version, versionEntry)
    /\ callerLog' = CallerLogAfterMerge(callerLog, source.version, versionEntry)
    /\ pc' = "returned"
    /\ UNCHANGED <<calls, callerSource, logAtCall, source, t, c, versionEntry, spawned,
                   files>>

\* Lines 594-600: the result is written. With a log path of its own, newLog goes
\* to the log file. Without a log argument `source != log` holds too, and
\* writeFileSync(undefined, ...) throws a TypeError. With the source path as the
\* log path, line 598 sets a property on the path string, which does nothing,
\* and newSource is written: its successfulBuilds are those of the copy.
Persist ==
    /\ pc = "returned"
    /\ CASE mode = "split" ->
              /\ logFile' = Some(newLog)
              /\ pc' = "written"
              /\ UNCHANGED packageBuilds
         [] mode = "none" ->
              /\ pc' = "failed"
              /\ UNCHANGED <<logFile, packageBuilds>>
         [] mode = "same" ->
              /\ packageBuilds' = Some(source.successfulBuilds)
              /\ pc' = "written"
              /\ UNCHANGED logFile
    /\ UNCHANGED <<calls, mode, callerSource, callerLog, logAtCall, source, t, c,
                   versionEntry, spawned, newLog>>

\* The run is over; the next one starts from what is on disk.
Exit ==
    /\ pc \in {"written", "failed"}
    /\ pc' = "idle"
    /\ callerSource' = NoSource
    /\ callerLog' = EmptyObject
    /\ logAtCall' = EmptyObject
    /\ source' = NormalizeSource(NoSource)
    /\ t' = 1
    /\ c' = 0
    /\ versionEntry' = NoEntry
    /\ spawned' = <<>>
    /\ newLog' = EmptyObject
    /\ UNCHANGED <<calls, files>>

Init ==
    /\ calls = 0
    /\ pc = "idle"
    /\ mode \in Modes
    /\ logFile \in (IF mode = "split" THEN InitialHistories ELSE {None})
    /\ packageBuilds \in (IF mode = "split" THEN {None} ELSE InitialHistories)
    /\ callerLog = EmptyObject
    /\ callerSource = NoSource
    /\ logAtCall = EmptyObject
    /\ source = NormalizeSource(NoSource)
    /\ t = 1
    /\ c = 0
    /\ versionEntry = NoEntry
    /\ spawned = <<>>
    /\ newLog = EmptyObject

Next ==
    \/ \E src \in Sources : Call(src)
    \/ EnterTrackable
    \/ SkipCandidate
    \/ Spawn
    \/ SpawnThrows
    \/ Merge
    \/ Persist
    \/ Exit

Spec == Init /\ [][Next]_vars

\* ------------------------------------------------------------ the claims

ProjectVersion == source.version

\* The bucket of the current version in the log the call was made with; an
\* absent bucket counts as empty.
OldBucket ==
    IF ObjHas(logAtCall, ProjectVersion) THEN ObjGet(logAtCall, ProjectVersion) ELSE <<>>

\* The entry serializes identically to an element of the bucket.
SerializedIn(bucket, entry) ==
    \E i \in 1..Len(bucket) : Stringify(bucket[i]) = Stringify(entry)

\* The candidate's result is a success as the code counts it: exit status 0
\* and some output.
Succeeded(result) == ExitedZero(result) /\ Len(Output(result)) > 0

\* The spawns of trackable i, in the order they were made.
SpawnsOf(i) == SelectSeq(spawned, LAMBDA s : s.t = i)

\* Trackable i is the last trackable of the track with its property key.
LastWithKey(i) ==
    \A j \in (i + 1)..Len(Trackables) :
        PropertyKey(Trackables[j].name) # PropertyKey(Trackables[i].name)

\* C1 (as claimed): once a candidate of a trackable has succeeded, no later
\* candidate of that trackable is spawned, and the value recorded for the
\* trackable is the output of its first successful candidate.
C1_FirstSuccessWins ==
    /\ \A i, j \in 1..Len(spawned) :
           (i < j /\ spawned[i].t = spawned[j].t) => ~Succeeded(spawned[i].result)
    /\ pc = "returned" =>
           \A i \in 1..Len(Trackables) :
               LET wins == SelectSeq(SpawnsOf(i), LAMBDA s : Succeeded(s.result))
               IN (LastWithKey(i) /\ wins # <<>>) =>
                      ObjGet(versionEntry.executables, PropertyKey(Trackables[i].name))
                          = Some(StripAnsi(Output(wins[1].result)))

\* C2 (as claimed): the value recorded for a trackable is non-null if and only
\* if one of its candidates exited with status 0 and its output is still
\* non-empty after the ANSI escape sequences are removed.
C2_NonNullIffStrippedOutput ==
    pc = "returned" =>
        \A i \in 1..Len(Trackables) :
            LastWithKey(i) =>
                (IsSome(ObjGet(versionEntry.executables, PropertyKey(Trackables[i].name)))
                    <=> \E k \in 1..Len(spawned) :
                            /\ spawned[k].t = i
                            /\ ExitedZero(spawned[k].result)
                            /\ StripAnsi(Output(spawned[k].result)) # <<>>)

\* C3 (as claimed): after a merge into version v, v is the first key of the
\* returned log.
C3_MergedVersionIsFirstKey ==
    pc = "returned" => ObjKeys(newLog)[1] = ProjectVersion

\* Two records with the same platform and the same name-to-version mapping,
\* whatever the order of the mapping's keys.
StructurallyEqual(a, b) ==
    /\ a.platform = b.platform
    /\ {a.executables[i] : i \in 1..Len(a.executables)}
           = {b.executables[i] : i \in 1..Len(b.executables)}

NoStructuralDuplicates(log) ==
    \A k \in 1..Len(log) :
        \A i, j \in 1..Len(log[k].value) :
            i # j => ~StructurallyEqual(log[k].value[i], log[k].value[j])

\* C4 (as claimed): no bucket of the log ever holds two structurally equal
\* records (the initial logs hold none).
C4_NoStructuralDuplicates ==
    /\ NoStructuralDuplicates(callerLog)
    /\ pc = "returned" => NoStructuralDuplicates(newLog)

\* C5 (as claimed): when the call has returned, the caller's log object, bucket
\* arrays included, holds what it held when the call was made (the source is
\* deep-copied on line 442, so only the log is in question).
C5_ArgumentsNotMutated ==
    pc = "returned" => callerLog = logAtCall

\* C6: when the entry is not in the version's bucket, the returned bucket is the
\* entry followed by the previous bucket.
C6_NewRecordIsPrepended ==
    (pc = "returned" /\ ~SerializedIn(OldBucket, versionEntry)) =>
        ObjGet(newLog, ProjectVersion) = <<versionEntry>> \o OldBucket

\* C6 witness: a new entry was merged into a bucket that held records.
C6_Witness ==
    /\ pc = "returned"
    /\ ~SerializedIn(OldBucket, versionEntry)
    /\ Len(OldBucket) >= 1

\* C7: merging the same entry into the same version of the returned log again
\* returns that log: same keys in the same order, same buckets.
C7_MergeIsIdempotent ==
    pc = "returned" => MergedLog(newLog, ProjectVersion, versionEntry) = newLog

\* C7 witness: the first merge added the entry to the log (and, in particular,
\* to an empty log, whose bucket then has length 1).
C7_Witness ==
    /\ pc = "returned"
    /\ logAtCall = EmptyObject
    /\ Len(ObjGet(newLog, ProjectVersion)) = 1
    /\ versionEntry.executables # EmptyObject

\* C8 (as claimed): when the entry serializes identically to a record of the
\* version's bucket, the returned log is the input log, keys in the same order.
C8_DuplicateReturnsLogUnchanged ==
    (pc = "returned" /\ SerializedIn(OldBucket, versionEntry)) => newLog = logAtCall

\* C8 (amended): when the entry serializes identically to a record of the
\* version's bucket, the returned log has the keys and the buckets of the input
\* log, and the keys other than the version are in the order they were in.
C8_DuplicateKeepsBuckets ==
    (pc = "returned" /\ SerializedIn(OldBucket, versionEntry)) =>
        /\ Len(newLog) = Len(logAtCall)
        /\ ObjHas(newLog, ProjectVersion)
        /\ ObjGet(newLog, ProjectVersion) = OldBucket
        /\ ObjDelete(newLog, ProjectVersion) = ObjDelete(logAtCall, ProjectVersion)

\* C8 witness: a duplicate was merged into a version that was not the first key.
C8_Witness ==
    /\ pc = "returned"
    /\ SerializedIn(OldBucket, versionEntry)
    /\ ObjKeys(logAtCall)[1] # ProjectVersion

\* Key a comes before key b in the object (both are keys of it).
Precedes(obj, a, b) ==
    \E i, j \in 1..Len(obj) : i < j /\ obj[i].key = a /\ obj[j].key = b

\* C9: two keys of the input log other than the version are in the returned
\* log in the order they were in.
C9_OtherKeysKeepOrder ==
    pc = "returned" =>
        \A i, j \in 1..Len(logAtCall) :
            LET a == logAtCall[i].key
                b == logAtCall[j].key
            IN (a # ProjectVersion /\ b # ProjectVersion /\ a # b) =>
                   (Precedes(newLog, a, b) <=> Precedes(logAtCall, a, b))

\* C9 witness: the version was a key of the log after two other keys, and the
\* merge moved it.
C9_Witness ==
    /\ pc = "returned"
    /\ Len(logAtCall) >= 3
    /\ logAtCall[3].key = ProjectVersion
    /\ ObjKeys(newLog) # ObjKeys(logAtCall)

\* The trackable has no candidate to try: versionCommands is missing or empty.
MissingCommands(trackable) ==
    \/ ~IsSome(trackable.versionCommands)
    \/ Get(trackable.versionCommands) = <<>>

\* A malformed trackable: no name, or no candidate.
Malformed(trackable) == ~IsSome(trackable.name) \/ MissingCommands(trackable)

SpawnStep == Len(spawned') = Len(spawned) + 1

\* C11: a candidate that fails to spawn, exits with a non-zero status or gives
\* no output raises nothing and records nothing, and the loop goes on to the
\* next candidate of the trackable, or to the next trackable after the last
\* candidate; a trackable whose spawned candidates all missed has the value null
\* when the call returns.
C11_MissIsRecoverable ==
    /\ [][(SpawnStep /\ ~Succeeded(spawned'[Len(spawned')].result)) =>
             /\ pc' = "probing"
             /\ versionEntry' = versionEntry
             /\ IF c < Len(Get(Trackables[t].versionCommands))
                THEN t' = t /\ c' = c + 1
                ELSE t' = t + 1 /\ c' = 0]_vars
    /\ [](pc = "returned" =>
             \A i \in 1..Len(Trackables) :
                 (/\ LastWithKey(i)
                  /\ \A k \in 1..Len(spawned) :
                         spawned[k].t = i => ~Succeeded(spawned[k].result)) =>
                     /\ ObjHas(versionEntry.executables, PropertyKey(Trackables[i].name))
                     /\ ObjGet(versionEntry.executables,
                               PropertyKey(Trackables[i].name)) = None)

\* C11 witness: the first candidate of a trackable could not be spawned, the
\* second succeeded, and the value recorded is the second one's output.
C11_Witness ==
    /\ pc = "returned"
    /\ Len(spawned) = 2
    /\ spawned[1].t = spawned[2].t
    /\ spawned[1].result = NotFound
    /\ Succeeded(spawned[2].result)
    /\ ObjGet(versionEntry.executables, PropertyKey(Trackables[spawned[2].t].name))
           = Some(StripAnsi(Output(spawned[2].result)))

\* The property keys of the track's trackables.
TrackKeys == {PropertyKey(Trackables[i].name) : i \in 1..Len(Trackables)}

\* No candidate of trackable i succeeded.
NoSuccess(i) ==
    \A k \in 1..Len(spawned) : spawned[k].t = i => ~Succeeded(spawned[k].result)

\* C12 (as claimed): the executables map of a returned call has as many keys as
\* the track has entries, and a trackable without a success has the value null.
C12_OneKeyPerTrackable ==
    pc = "returned" =>
        /\ Len(versionEntry.executables) = Len(Trackables)
        /\ \A i \in 1..Len(Trackables) :
               /\ ObjHas(versionEntry.executables, PropertyKey(Trackables[i].name))
               /\ (LastWithKey(i) /\ NoSuccess(i)) =>
                      ObjGet(versionEntry.executables,
                             PropertyKey(Trackables[i].name)) = None

\* C12 (amended): the executables map of a returned call has exactly one key
\* per distinct trackable name of the track (a missing name counting as
\* "undefined"), and a trackable without a success has the value null, so the
\* key set depends on the track alone.
C12_OneKeyPerName ==
    pc = "returned" =>
        /\ {versionEntry.executables[k].key : k \in 1..Len(versionEntry.executables)}
               = TrackKeys
        /\ Len(versionEntry.executables) = Cardinality(TrackKeys)
        /\ \A i \in 1..Len(Trackables) :
               (LastWithKey(i) /\ NoSuccess(i)) =>
                   ObjGet(versionEntry.executables,
                          PropertyKey(Trackables[i].name)) = None

\* C12 witness: a call with two trackables returned, one with a version and one
\* with an explicit null.
C12_Witness ==
    /\ pc = "returned"
    /\ Len(Trackables) = 2
    /\ Len(versionEntry.executables) = 2
    /\ IsSome(versionEntry.executables[1].value)
    /\ versionEntry.executables[2].value = None
    /\ spawned # <<>>
    /\ NoSuccess(2)

\* The build history on disk: the log file when the log has a path of its own,
\* versionTracker.successfulBuilds of package.json otherwise.
PersistedHistory == IF mode = "split" THEN logFile ELSE packageBuilds

\* The history on disk has the record of this run in the bucket of the project
\* version.
RecordIsPersisted ==
    /\ IsSome(PersistedHistory)
    /\ ObjHas(Get(PersistedHistory), ProjectVersion)
    /\ SerializedIn(ObjGet(Get(PersistedHistory), ProjectVersion), versionEntry)

\* C13: in each storage mode a run that probed its trackables ends without
\* failing, and the history on disk then has the record of the run in the
\* bucket of the project version.
C13_RecordIsPersisted ==
    /\ pc # "failed"
    /\ pc = "written" => RecordIsPersisted

\* a is the end of b: the last Len(a) elements of b, in order.
IsSuffix(a, b) ==
    /\ Len(a) <= Len(b)
    /\ \A i \in 1..Len(a) : b[Len(b) - Len(a) + i] = a[i]

KeySet(obj) == {obj[i].key : i \in 1..Len(obj)}

\* C14: the returned log has the keys of the input log and the version; the
\* bucket of every other version is the one of the input log; the records that
\* were in the version's bucket are still in it, in order, after whatever was
\* added. And from one write of the log file to the next no key goes away and
\* no bucket gets shorter.
C14_MergeKeepsHistory ==
    /\ [](pc = "returned" =>
            /\ KeySet(newLog) = KeySet(logAtCall) \cup {ProjectVersion}
            /\ \A k \in KeySet(logAtCall) \ {ProjectVersion} :
                   ObjGet(newLog, k) = ObjGet(logAtCall, k)
            /\ IsSuffix(OldBucket, ObjGet(newLog, ProjectVersion)))
    /\ [][IsSome(logFile) =>
            /\ IsSome(logFile')
            /\ \A k \in KeySet(Get(logFile)) :
                   /\ ObjHas(Get(logFile'), k)
                   /\ Len(ObjGet(Get(logFile'), k)) >= Len(ObjGet(Get(logFile), k))]_vars

\* A record is added to a bucket that had one, next to another version's bucket,
\* and the log is written.
C14_Witness ==
    /\ pc = "written"
    /\ mode = "split"
    /\ Len(logAtCall) = 2
    /\ Len(OldBucket) = 1
    /\ Len(ObjGet(newLog, ProjectVersion)) = 2
    /\ logFile = Some(newLog)

====
